---- MODULE Spec2Model ----
(***************************************************************************)
(* Batch orchestration of src/services/colorize.ts (processColorization,   *)
(* the chained mode, lines 106-183: the definition that notifies each page *)
(* as it completes) and src/services/translate.ts (processTranslation,     *)
(* the flat mode).  The file also holds a second definition of             *)
(* processColorization (lines 262-334), which notifies the pages of a      *)
(* batch after the join; it is the mode "collect".                         *)
(*                                                                         *)
(* One run of one of the two functions is modelled.  The orchestrator is   *)
(* an async function: pc is its position ("loop" = at the loop test,       *)
(* "await" = suspended in `await Promise.all(...)`, "resolved"/"rejected"  *)
(* = its promise has settled).  Every page of a batch is an async task     *)
(* with two suspension points (building the request, the remote call).     *)
(***************************************************************************)
EXTENDS Integers, Sequences, FiniteSets, TLC

\* ---------------------------------------------------------------- bounds
MaxPages == 5
MaxWidth == 3

\* ---------------------------------------------------------------- state
VARIABLES
    mode,                  \* "chained" | "collect" (processColorization) | "flat" (processTranslation)
    totalPages,            \* files.length
    batchSize,             \* config.batchSize
    missing,               \* indices for which getProcessedImageBase64 yields null
    pc,                    \* position of the orchestrator
    currentIndex,          \* colorize.ts: let currentIndex
    batchNumber,           \* colorize.ts: let batchNumber
    completedIndices,      \* colorize.ts: const completedIndices
    batchStart,            \* translate.ts: let batchStart
    batchIndices,          \* const batchIndices of the current iteration
    refIndices,            \* const refIndices of the current iteration
    batchCompletedIndices, \* const batchCompletedIndices of the current iteration
    task,                  \* page of the batch -> state of its promise
    contents,              \* page of the batch -> content parts of its request
    batchPromise,          \* the promise returned by Promise.all
    batchResults,          \* colorize.ts:321: page -> results.length of the settled tasks
    runError,              \* reason the run's promise rejected with
    batchLog,              \* observer: the onPageProcessing calls, with the references used
    completeCount,         \* observer: page -> number of onPageComplete calls
    emptied,               \* observer: pages whose remote call returned no result
    errorLog,              \* observer: errors thrown by page tasks, in time order
    lateComplete           \* observer: onPageComplete calls made after the run settled

vars == <<mode, totalPages, batchSize, missing, pc, currentIndex, batchNumber,
          completedIndices, batchStart, batchIndices, refIndices,
          batchCompletedIndices, task, contents, batchPromise, batchResults,
          runError, batchLog, completeCount, emptied, errorLog, lateComplete>>

\* ---------------------------------------------------------------- helpers
Min(a, b) == IF a <= b THEN a ELSE b

Max(a, b) == IF a >= b THEN a ELSE b

\* Math.min(a, b, c)
Min3(a, b, c) == Min(a, Min(b, c))

\* Array.from({ length: n }, (_, i) => start + i)
ArrayFrom(start, n) == [i \in 1..n |-> start + i - 1]

\* Array.prototype.slice(start)
Slice(s, start) == SubSeq(s, start + 1, Len(s))

SeqToSet(s) == {s[i] : i \in 1..Len(s)}

RECURSIVE InsertAscending(_, _)
InsertAscending(s, x) ==
    IF s = <<>> THEN <<x>>
    ELSE IF x - Head(s) < 0 THEN <<x>> \o s
    ELSE <<Head(s)>> \o InsertAscending(Tail(s), x)

RECURSIVE SortedBy(_)
SortedBy(s) ==
    IF s = <<>> THEN <<>>
    ELSE InsertAscending(SortedBy(SubSeq(s, 1, Len(s) - 1)), s[Len(s)])

\* Mutant: the batch is appended in completion order.
NoSort(s) == s

\* batchCompletedIndices.sort((a, b) => a - b)
SortAscending(s) == SortedBy(s)

NoError == [page |-> -1, kind |-> "none"]

PendingPromise == [state |-> "pending", reason |-> NoError]
\* ------------------------------------------------------- content parts
\* createTextPart / createImagePart: a part is a text or an image; role and
\* n say which text or image it is (n: page number, page index or count).
createTextPart(role, n) == [kind |-> "text", role |-> role, n |-> n]

createImagePart(role, n) == [kind |-> "image", role |-> role, n |-> n]

\* colorize.ts:66-72: the label and image of every reference the accessor
\* resolves, in the given order; an unresolved reference is skipped.
RECURSIVE referenceParts(_, _)
referenceParts(refs, absent) ==
    IF refs = <<>> THEN <<>>
    ELSE (IF Head(refs) \in absent
          THEN <<>>
          ELSE <<createTextPart("referenceLabel", Head(refs) + 1),
                 createImagePart("reference", Head(refs))>>)
         \o referenceParts(Tail(refs), absent)

\* colorize.ts:57-88, the value buildSinglePageRequest returns.
buildSinglePageRequest(pageIndex, refs, absent) ==
    referenceParts(refs, absent)
    \o <<createTextPart("targetLabel", pageIndex + 1),
         createImagePart("target", pageIndex),
         createTextPart("colorizationPrompt", Len(refs))>>

\* translate.ts:43-46, the contents translateSinglePage submits.
translateContents(pageIndex) ==
    <<createTextPart("translationPrompt", 0), createImagePart("target", pageIndex)>>

\* ------------------------------------------------------- batch planner
\* Mutant: the batch is not limited by the number of completed pages.
targetBatchCountNoRegistry(ordinal, width, completedCount) ==
    IF ordinal = 1 THEN 1 ELSE Min(ordinal, width)

\* Mutant: every batch has the configured width, as in the flat mode.
targetBatchCountFlat(ordinal, width, completedCount) == width

\* colorize.ts:127-129
targetBatchCount(ordinal, width, completedCount) ==
    IF ordinal = 1 THEN 1 ELSE Min3(ordinal, width, completedCount)

\* Mutant: the batch is not clamped to the remaining pages.
batchCountUnclamped(ordinal, width, completedCount, total, cursor) ==
    targetBatchCount(ordinal, width, completedCount)

\* colorize.ts:130
batchCountOf(ordinal, width, completedCount, total, cursor) ==
    Min(targetBatchCount(ordinal, width, completedCount), total - cursor)

\* Mutant: every completed page is a reference.
referenceWindowAll(completed, width) == completed

\* colorize.ts:140-142
referenceWindow(completed, width) ==
    LET completedCount == Len(completed)
        refCount == Min(width, completedCount)
        refStartIndex == Max(0, Len(completed) - refCount)
    IN  Slice(completed, refStartIndex)

\* Mutant: batchEnd is not clamped to totalPages.
translateBatchUnclamped(start, width, total) == ArrayFrom(start, width)

\* translate.ts:82-86
translateBatch(start, width, total) ==
    ArrayFrom(start, Min(start + width, total) - start)

\* batchNumber enters the program only through Math.min(batchNumber,
\* batchSize, completedCount) and the test batchNumber === 1, so every value
\* above batchSize behaves alike.  A run that makes progress ends with
\* batchNumber <= total + 1; the counter is held at BatchCap, which only a
\* run that never ends reaches.
BatchCap(total, width) == Max(total, width) + 2

\* colorize.ts:181
nextBatchNumber(n, total, width) == IF n < BatchCap(total, width) THEN n + 1 ELSE n

\* The observer keeps the first LogCap(total) notifications; a run that
\* makes progress emits at most total of them.
LogCap(total) == total + 2

\* Mutant: the batch-started notification is not emitted.
notLogged(log, entry, total) == log

logged(log, entry, total) ==
    IF Len(log) < LogCap(total) THEN Append(log, entry) ELSE log

\* ------------------------------------------------------- Promise.all
\* Promise.all over the tasks t: rejected with the reason of the first task
\* that rejects, fulfilled once every task is fulfilled.
promiseAllAfterReject(p, err) ==
    IF p.state = "pending" THEN [state |-> "rejected", reason |-> err] ELSE p

\* Mutant: the join is fulfilled by the first task that is fulfilled.
promiseAllAfterFirstFulfil(p, t) ==
    IF p.state = "pending" THEN [state |-> "fulfilled", reason |-> NoError] ELSE p

promiseAllAfterFulfil(p, t) ==
    IF p.state = "pending" /\ \A q \in DOMAIN t : t[q] = "fulfilled"
    THEN [state |-> "fulfilled", reason |-> NoError]
    ELSE p

promiseAllOf(indices) ==
    IF indices = <<>> THEN [state |-> "fulfilled", reason |-> NoError]
    ELSE PendingPromise

Settled == {"resolved", "rejected"}

\* onPageComplete(result) with result.index = p
notifyComplete(p) ==
    /\ completeCount' = [completeCount EXCEPT ![p] = @ + 1]
    /\ lateComplete' = IF pc \in Settled THEN lateComplete \cup {p} ELSE lateComplete
\* Mutant: the empty result list is not thrown.
emptyResultNeverThrows(resultCount) == FALSE

\* translate.ts:56-58: an empty result list is thrown as an error.
emptyResultThrows(resultCount) == resultCount = 0

\* ------------------------------------------------------- initial states
Pages == 0..(totalPages - 1)

InitRun ==
    /\ pc = "loop"
    /\ currentIndex = 0
    /\ batchNumber = 1
    /\ completedIndices = <<>>
    /\ batchStart = 0
    /\ batchIndices = <<>>
    /\ refIndices = <<>>
    /\ batchCompletedIndices = <<>>
    /\ task = <<>>
    /\ contents = <<>>
    /\ batchPromise = PendingPromise
    /\ batchResults = <<>>
    /\ runError = NoError
    /\ batchLog = <<>>
    /\ completeCount = [p \in Pages |-> 0]
    /\ emptied = {}
    /\ errorLog = <<>>
    /\ lateComplete = {}

Init ==
    /\ mode \in {"chained", "collect", "flat"}
    /\ totalPages \in 0..MaxPages
    /\ batchSize \in 1..MaxWidth
    /\ missing \in (IF mode = "flat" THEN {{}} ELSE SUBSET Pages)
    /\ InitRun

\* The examples: 12 and 3 pages at batch size 4 (colorize.ts:99-104), and
\* the flat mode on up to 10 pages at batch sizes up to 3.
ExampleInit ==
    /\ \/ mode = "chained" /\ totalPages \in {3, 12} /\ batchSize = 4
       \/ mode = "collect" /\ totalPages = 3 /\ batchSize = 4
       \/ mode = "flat" /\ totalPages \in 0..10 /\ batchSize \in 1..3
    /\ missing = {}
    /\ InitRun

\* ------------------------------------------------------- chained mode
\* Mutant: an empty result list is taken for a result.
hasResultAlways(resultCount) == TRUE

\* colorize.ts:165: results.length > 0
hasResult(resultCount) == resultCount > 0

\* Mutant: the cursor advances by one page less than the batch held.
nextIndexOffByOne(cursor, batchCount) == cursor + batchCount - 1

\* colorize.ts:180: currentIndex += batchCount
nextIndex(cursor, batchCount) == cursor + batchCount

\* colorize.ts:122-171: the loop test holds; plan the batch, notify, pick
\* the references and start one task per page.
processColorization_dispatch ==
    /\ mode = "chained" /\ pc = "loop"
    /\ currentIndex < totalPages
    /\ LET completedCount == Len(completedIndices)
           batchCount == batchCountOf(batchNumber, batchSize, completedCount,
                                      totalPages, currentIndex)
           indices == ArrayFrom(currentIndex, batchCount)
           refs == referenceWindow(completedIndices, batchSize)
       IN  /\ batchIndices' = indices
           /\ refIndices' = refs
           /\ batchLog' = logged(batchLog, [indices |-> indices, refs |-> refs], totalPages)
           /\ batchCompletedIndices' = <<>>
           /\ task' = [p \in SeqToSet(indices) |-> "building"]
           /\ contents' = [p \in SeqToSet(indices) |-> <<>>]
           /\ batchPromise' = promiseAllOf(indices)
    /\ pc' = "await"
    /\ UNCHANGED <<mode, totalPages, batchSize, missing, batchResults, currentIndex, batchNumber,
                   completedIndices, batchStart, runError, completeCount, emptied,
                   errorLog, lateComplete>>

\* A page task's promise rejects with err (an exception leaves the async arrow).
taskThrows(p, err) ==
    /\ task' = [task EXCEPT ![p] = "rejected"]
    /\ errorLog' = Append(errorLog, err)
    /\ batchPromise' = promiseAllAfterReject(batchPromise, err)

\* colorize.ts:149-154: buildSinglePageRequest returns the contents.
colorizePage_built(p) ==
    /\ mode = "chained" /\ p \in DOMAIN task /\ task[p] = "building"
    /\ task' = [task EXCEPT ![p] = "calling"]
    /\ contents' = [contents EXCEPT ![p] = buildSinglePageRequest(p, refIndices, missing)]
    /\ UNCHANGED <<mode, totalPages, batchSize, missing, batchResults, pc, currentIndex, batchNumber,
                   completedIndices, batchStart, batchIndices, refIndices,
                   batchCompletedIndices, batchPromise, runError, batchLog,
                   completeCount, emptied, errorLog, lateComplete>>

\* colorize.ts:75,81: fileToBase64 or getImageDimensions throws.
colorizePage_buildFails(p) ==
    /\ mode = "chained" /\ p \in DOMAIN task /\ task[p] = "building"
    /\ taskThrows(p, [page |-> p, kind |-> "decode"])
    /\ UNCHANGED <<mode, totalPages, batchSize, missing, batchResults, pc, currentIndex, batchNumber,
                   completedIndices, batchStart, batchIndices, refIndices,
                   batchCompletedIndices, contents, runError, batchLog,
                   completeCount, emptied, lateComplete>>

\* colorize.ts:157-170: callGeminiImageAPI returns resultCount results.
colorizePage_returns(p, resultCount) ==
    /\ mode = "chained" /\ p \in DOMAIN task /\ task[p] = "calling"
    /\ emptied' = IF resultCount = 0 THEN emptied \cup {p} ELSE emptied
    /\ IF hasResult(resultCount)
       THEN /\ notifyComplete(p)
            /\ batchCompletedIndices' = Append(batchCompletedIndices, p)
       ELSE UNCHANGED <<completeCount, lateComplete, batchCompletedIndices>>
    /\ task' = [task EXCEPT ![p] = "fulfilled"]
    /\ batchPromise' = promiseAllAfterFulfil(batchPromise, task')
    /\ UNCHANGED <<mode, totalPages, batchSize, missing, batchResults, pc, currentIndex, batchNumber,
                   completedIndices, batchStart, batchIndices, refIndices, contents,
                   runError, batchLog, errorLog>>

\* colorize.ts:157: callGeminiImageAPI throws.
colorizePage_callFails(p) ==
    /\ mode = "chained" /\ p \in DOMAIN task /\ task[p] = "calling"
    /\ taskThrows(p, [page |-> p, kind |-> "remote"])
    /\ UNCHANGED <<mode, totalPages, batchSize, missing, batchResults, pc, currentIndex, batchNumber,
                   completedIndices, batchStart, batchIndices, refIndices,
                   batchCompletedIndices, contents, runError, batchLog,
                   completeCount, emptied, lateComplete>>

\* colorize.ts:174-181: Promise.all fulfilled; record the batch and advance.
processColorization_advance ==
    /\ mode = "chained" /\ pc = "await"
    /\ batchPromise.state = "fulfilled"
    /\ completedIndices' = completedIndices \o SortAscending(batchCompletedIndices)
    /\ currentIndex' = nextIndex(currentIndex, Len(batchIndices))
    /\ batchNumber' = nextBatchNumber(batchNumber, totalPages, batchSize)
    /\ pc' = "loop"
    /\ UNCHANGED <<mode, totalPages, batchSize, missing, batchResults, batchStart, batchIndices,
                   refIndices, batchCompletedIndices, task, contents, batchPromise,
                   runError, batchLog, completeCount, emptied, errorLog, lateComplete>>

\* colorize.ts:174: Promise.all rejected; the await throws out of the function.
processColorization_throw ==
    /\ mode = "chained" /\ pc = "await"
    /\ batchPromise.state = "rejected"
    /\ pc' = "rejected"
    /\ runError' = batchPromise.reason
    /\ UNCHANGED <<mode, totalPages, batchSize, missing, batchResults, currentIndex, batchNumber,
                   completedIndices, batchStart, batchIndices, refIndices,
                   batchCompletedIndices, task, contents, batchPromise, batchLog,
                   completeCount, emptied, errorLog, lateComplete>>

\* colorize.ts:122,183: the loop test fails; the function returns.
processColorization_return ==
    /\ mode = "chained" /\ pc = "loop"
    /\ ~(currentIndex < totalPages)
    /\ pc' = "resolved"
    /\ UNCHANGED <<mode, totalPages, batchSize, missing, batchResults, currentIndex, batchNumber,
                   completedIndices, batchStart, batchIndices, refIndices,
                   batchCompletedIndices, task, contents, batchPromise, runError,
                   batchLog, completeCount, emptied, errorLog, lateComplete>>
\* ------------------------------------------------------- chained mode, second definition
\* colorize.ts:278-318: the loop test holds; plan the batch, notify, pick
\* the references and start one task per page.
processColorizationCollect_dispatch ==
    /\ mode = "collect" /\ pc = "loop"
    /\ currentIndex < totalPages
    /\ LET completedCount == Len(completedIndices)
           batchCount == batchCountOf(batchNumber, batchSize, completedCount,
                                      totalPages, currentIndex)
           indices == ArrayFrom(currentIndex, batchCount)
           refs == referenceWindow(completedIndices, batchSize)
       IN  /\ batchIndices' = indices
           /\ refIndices' = refs
           /\ batchLog' = logged(batchLog, [indices |-> indices, refs |-> refs], totalPages)
           /\ task' = [p \in SeqToSet(indices) |-> "building"]
           /\ contents' = [p \in SeqToSet(indices) |-> <<>>]
           /\ batchPromise' = promiseAllOf(indices)
           /\ batchResults' = <<>>
    /\ pc' = "await"
    /\ UNCHANGED <<mode, totalPages, batchSize, missing, currentIndex, batchNumber,
                   completedIndices, batchStart, batchCompletedIndices, runError,
                   completeCount, emptied, errorLog, lateComplete>>

\* colorize.ts:302-307: buildSinglePageRequest returns the contents.
collectPage_built(p) ==
    /\ mode = "collect" /\ p \in DOMAIN task /\ task[p] = "building"
    /\ task' = [task EXCEPT ![p] = "calling"]
    /\ contents' = [contents EXCEPT ![p] = buildSinglePageRequest(p, refIndices, missing)]
    /\ UNCHANGED <<mode, totalPages, batchSize, missing, batchResults, pc, currentIndex,
                   batchNumber, completedIndices, batchStart, batchIndices, refIndices,
                   batchCompletedIndices, batchPromise, runError, batchLog,
                   completeCount, emptied, errorLog, lateComplete>>

\* colorize.ts:235: fileToBase64 throws.
collectPage_buildFails(p) ==
    /\ mode = "collect" /\ p \in DOMAIN task /\ task[p] = "building"
    /\ taskThrows(p, [page |-> p, kind |-> "decode"])
    /\ UNCHANGED <<mode, totalPages, batchSize, missing, batchResults, pc, currentIndex,
                   batchNumber, completedIndices, batchStart, batchIndices, refIndices,
                   batchCompletedIndices, contents, runError, batchLog,
                   completeCount, emptied, lateComplete>>

\* colorize.ts:310-317: callGeminiImageAPI returns resultCount results; the
\* task returns them without notifying.
collectPage_returns(p, resultCount) ==
    /\ mode = "collect" /\ p \in DOMAIN task /\ task[p] = "calling"
    /\ batchResults' = batchResults @@ (p :> resultCount)
    /\ emptied' = IF resultCount = 0 THEN emptied \cup {p} ELSE emptied
    /\ task' = [task EXCEPT ![p] = "fulfilled"]
    /\ batchPromise' = promiseAllAfterFulfil(batchPromise, task')
    /\ UNCHANGED <<mode, totalPages, batchSize, missing, pc, currentIndex, batchNumber,
                   completedIndices, batchStart, batchIndices, refIndices,
                   batchCompletedIndices, contents, runError, batchLog, completeCount,
                   errorLog, lateComplete>>

\* colorize.ts:310: callGeminiImageAPI throws.
collectPage_callFails(p) ==
    /\ mode = "collect" /\ p \in DOMAIN task /\ task[p] = "calling"
    /\ taskThrows(p, [page |-> p, kind |-> "remote"])
    /\ UNCHANGED <<mode, totalPages, batchSize, missing, batchResults, pc, currentIndex,
                   batchNumber, completedIndices, batchStart, batchIndices, refIndices,
                   batchCompletedIndices, contents, runError, batchLog,
                   completeCount, emptied, lateComplete>>

\* colorize.ts:321-332: Promise.all fulfilled; in the order of the batch,
\* notify and record every page that has a result, then advance.
processColorizationCollect_advance ==
    /\ mode = "collect" /\ pc = "await"
    /\ batchPromise.state = "fulfilled"
    /\ LET withResult(p) == hasResult(batchResults[p])
           done == SelectSeq(batchIndices, withResult)
       IN  /\ completedIndices' = completedIndices \o done
           /\ completeCount' = [p \in DOMAIN completeCount |->
                                   IF p \in SeqToSet(done) THEN completeCount[p] + 1
                                   ELSE completeCount[p]]
    /\ currentIndex' = nextIndex(currentIndex, Len(batchIndices))
    /\ batchNumber' = nextBatchNumber(batchNumber, totalPages, batchSize)
    /\ pc' = "loop"
    /\ UNCHANGED <<mode, totalPages, batchSize, missing, batchResults, batchStart,
                   batchIndices, refIndices, batchCompletedIndices, task, contents,
                   batchPromise, runError, batchLog, emptied, errorLog, lateComplete>>

\* colorize.ts:321: Promise.all rejected; the await throws out of the function.
processColorizationCollect_throw ==
    /\ mode = "collect" /\ pc = "await"
    /\ batchPromise.state = "rejected"
    /\ pc' = "rejected"
    /\ runError' = batchPromise.reason
    /\ UNCHANGED <<mode, totalPages, batchSize, missing, batchResults, currentIndex,
                   batchNumber, completedIndices, batchStart, batchIndices, refIndices,
                   batchCompletedIndices, task, contents, batchPromise, batchLog,
                   completeCount, emptied, errorLog, lateComplete>>

\* colorize.ts:278,334: the loop test fails; the function returns.
processColorizationCollect_return ==
    /\ mode = "collect" /\ pc = "loop"
    /\ ~(currentIndex < totalPages)
    /\ pc' = "resolved"
    /\ UNCHANGED <<mode, totalPages, batchSize, missing, batchResults, currentIndex,
                   batchNumber, completedIndices, batchStart, batchIndices, refIndices,
                   batchCompletedIndices, task, contents, batchPromise, runError,
                   batchLog, completeCount, emptied, errorLog, lateComplete>>

\* ------------------------------------------------------- flat mode
\* translate.ts:81-99: the loop test holds; notify and start one task per page.
processTranslation_dispatch ==
    /\ mode = "flat" /\ pc = "loop"
    /\ batchStart < totalPages
    /\ LET indices == translateBatch(batchStart, batchSize, totalPages)
       IN  /\ batchIndices' = indices
           /\ batchLog' = logged(batchLog, [indices |-> indices, refs |-> <<>>], totalPages)
           /\ task' = [p \in SeqToSet(indices) |-> "building"]
           /\ contents' = [p \in SeqToSet(indices) |-> <<>>]
           /\ batchPromise' = promiseAllOf(indices)
    /\ pc' = "await"
    /\ UNCHANGED <<mode, totalPages, batchSize, missing, batchResults, currentIndex, batchNumber,
                   completedIndices, batchStart, refIndices, batchCompletedIndices,
                   runError, completeCount, emptied, errorLog, lateComplete>>

\* translate.ts:39-46: fileToBase64 returns; the contents are assembled.
translateSinglePage_encoded(p) ==
    /\ mode = "flat" /\ p \in DOMAIN task /\ task[p] = "building"
    /\ task' = [task EXCEPT ![p] = "calling"]
    /\ contents' = [contents EXCEPT ![p] = translateContents(p)]
    /\ UNCHANGED <<mode, totalPages, batchSize, missing, batchResults, pc, currentIndex, batchNumber,
                   completedIndices, batchStart, batchIndices, refIndices,
                   batchCompletedIndices, batchPromise, runError, batchLog,
                   completeCount, emptied, errorLog, lateComplete>>

\* translate.ts:39: fileToBase64 throws.
translateSinglePage_encodeFails(p) ==
    /\ mode = "flat" /\ p \in DOMAIN task /\ task[p] = "building"
    /\ taskThrows(p, [page |-> p, kind |-> "decode"])
    /\ UNCHANGED <<mode, totalPages, batchSize, missing, batchResults, pc, currentIndex, batchNumber,
                   completedIndices, batchStart, batchIndices, refIndices,
                   batchCompletedIndices, contents, runError, batchLog,
                   completeCount, emptied, lateComplete>>

\* translate.ts:49-63,94-98: callGeminiImageAPI returns resultCount results;
\* an empty list is thrown, a result is passed to onPageComplete.
translateSinglePage_returns(p, resultCount) ==
    /\ mode = "flat" /\ p \in DOMAIN task /\ task[p] = "calling"
    /\ emptied' = IF resultCount = 0 THEN emptied \cup {p} ELSE emptied
    /\ IF emptyResultThrows(resultCount)
       THEN /\ taskThrows(p, [page |-> p, kind |-> "empty"])
            /\ UNCHANGED <<completeCount, lateComplete>>
       ELSE /\ notifyComplete(p)
            /\ task' = [task EXCEPT ![p] = "fulfilled"]
            /\ batchPromise' = promiseAllAfterFulfil(batchPromise, task')
            /\ UNCHANGED errorLog
    /\ UNCHANGED <<mode, totalPages, batchSize, missing, batchResults, pc, currentIndex, batchNumber,
                   completedIndices, batchStart, batchIndices, refIndices,
                   batchCompletedIndices, contents, runError, batchLog>>

\* translate.ts:49: callGeminiImageAPI throws.
translateSinglePage_callFails(p) ==
    /\ mode = "flat" /\ p \in DOMAIN task /\ task[p] = "calling"
    /\ taskThrows(p, [page |-> p, kind |-> "remote"])
    /\ UNCHANGED <<mode, totalPages, batchSize, missing, batchResults, pc, currentIndex, batchNumber,
                   completedIndices, batchStart, batchIndices, refIndices,
                   batchCompletedIndices, contents, runError, batchLog,
                   completeCount, emptied, lateComplete>>

\* translate.ts:81,103: Promise.all fulfilled; batchStart += batchSize.
processTranslation_advance ==
    /\ mode = "flat" /\ pc = "await"
    /\ batchPromise.state = "fulfilled"
    /\ batchStart' = batchStart + batchSize
    /\ pc' = "loop"
    /\ UNCHANGED <<mode, totalPages, batchSize, missing, batchResults, currentIndex, batchNumber,
                   completedIndices, batchIndices, refIndices, batchCompletedIndices,
                   task, contents, batchPromise, runError, batchLog, completeCount,
                   emptied, errorLog, lateComplete>>

\* translate.ts:103-107: Promise.all rejected; the error is logged and rethrown.
processTranslation_throw ==
    /\ mode = "flat" /\ pc = "await"
    /\ batchPromise.state = "rejected"
    /\ pc' = "rejected"
    /\ runError' = batchPromise.reason
    /\ UNCHANGED <<mode, totalPages, batchSize, missing, batchResults, currentIndex, batchNumber,
                   completedIndices, batchStart, batchIndices, refIndices,
                   batchCompletedIndices, task, contents, batchPromise, batchLog,
                   completeCount, emptied, errorLog, lateComplete>>

\* translate.ts:81,109: the loop test fails; the function returns.
processTranslation_return ==
    /\ mode = "flat" /\ pc = "loop"
    /\ ~(batchStart < totalPages)
    /\ pc' = "resolved"
    /\ UNCHANGED <<mode, totalPages, batchSize, missing, batchResults, currentIndex, batchNumber,
                   completedIndices, batchStart, batchIndices, refIndices,
                   batchCompletedIndices, task, contents, batchPromise, runError,
                   batchLog, completeCount, emptied, errorLog, lateComplete>>

\* ------------------------------------------------------- specification
\* callGeminiImageAPI returns a list of length 0 or 1.
ResultCounts == {0, 1}

Next ==
    \/ processColorization_dispatch
    \/ \E p \in DOMAIN task : colorizePage_built(p)
    \/ \E p \in DOMAIN task : colorizePage_buildFails(p)
    \/ \E p \in DOMAIN task, n \in ResultCounts : colorizePage_returns(p, n)
    \/ \E p \in DOMAIN task : colorizePage_callFails(p)
    \/ processColorization_advance
    \/ processColorization_throw
    \/ processColorization_return
    \/ processColorizationCollect_dispatch
    \/ \E p \in DOMAIN task : collectPage_built(p)
    \/ \E p \in DOMAIN task : collectPage_buildFails(p)
    \/ \E p \in DOMAIN task, n \in ResultCounts : collectPage_returns(p, n)
    \/ \E p \in DOMAIN task : collectPage_callFails(p)
    \/ processColorizationCollect_advance
    \/ processColorizationCollect_throw
    \/ processColorizationCollect_return
    \/ processTranslation_dispatch
    \/ \E p \in DOMAIN task : translateSinglePage_encoded(p)
    \/ \E p \in DOMAIN task : translateSinglePage_encodeFails(p)
    \/ \E p \in DOMAIN task, n \in ResultCounts : translateSinglePage_returns(p, n)
    \/ \E p \in DOMAIN task : translateSinglePage_callFails(p)
    \/ processTranslation_advance
    \/ processTranslation_throw
    \/ processTranslation_return

Spec == Init /\ [][Next]_vars

\* The event loop runs every continuation that is ready, and the claims about
\* termination are about runs in which every request settles.
FairSpec == Init /\ [][Next]_vars /\ WF_vars(Next)

ExampleSpec == ExampleInit /\ [][Next]_vars
\* ------------------------------------------------------- claims
Chained == mode = "chained"

Flat == mode = "flat"

\* C1: in chained mode a run in which pages return empty results (and no
\* request throws) eventually reaches Done: the loop ends with
\* nextUnprocessedIndex = totalPages and the run's promise resolves.
C1_EmptyResultsStillReachDone ==
    Chained => <>((pc = "resolved" /\ currentIndex = totalPages) \/ errorLog # <<>>)
ErrorPages == {errorLog[i].page : i \in 1..Len(errorLog)}

NoFault == emptied = {} /\ errorLog = <<>>

AllSettled == \A p \in DOMAIN task : task[p] \in {"fulfilled", "rejected"}

InFlight == {p \in DOMAIN task : task[p] \in {"building", "calling"}}

\* The page indices of all batch notifications, in order.
RECURSIVE Emitted(_)
Emitted(log) ==
    IF log = <<>> THEN <<>>
    ELSE Emitted(SubSeq(log, 1, Len(log) - 1)) \o log[Len(log)].indices

\* C2: in chained mode a page whose request raises an error is treated like
\* an empty result: no onPageComplete for it, not in the registry, and the
\* run's promise does not reject.
C2_ChainedErrorsAreSkipped ==
    Chained =>
        /\ pc # "rejected"
        /\ \A p \in ErrorPages :
              completeCount[p] = 0 /\ p \notin SeqToSet(completedIndices)

\* C3: in flat mode an empty result or an error in a batch rejects the run
\* with the first error of that batch; the run never advances past the
\* failing batch, so its notification is the last one emitted.
C3_FlatFaultRejectsRun ==
    Flat =>
        /\ pc = "rejected" => runError = Head(errorLog)
        /\ (emptied \cup ErrorPages) # {} =>
              /\ pc \in {"await", "rejected"}
              /\ batchLog[Len(batchLog)].indices = batchIndices
              /\ Len(batchLog) = (batchStart \div batchSize) + 1
              /\ (emptied \cup ErrorPages) \subseteq SeqToSet(batchIndices)
              /\ emptied \subseteq ErrorPages
        /\ pc = "resolved" => NoFault

C3_Witness ==
    /\ Flat /\ pc = "rejected"
    /\ runError.kind = "empty"
    /\ Len(errorLog) = 2
    /\ batchStart + batchSize < totalPages
    /\ \E p \in DOMAIN task : task[p] = "fulfilled"

\* C4: in chained mode, whatever pages return empty results, the emitted
\* pageIndices lists are consecutive ranges starting at the cursor, and
\* their union becomes the full range [0, totalPages).
C4_ChainedBatchesPartitionPages ==
    /\ [](Chained /\ errorLog = <<>> =>
            Emitted(batchLog) =
              ArrayFrom(0, currentIndex + (IF pc = "await" THEN Len(batchIndices) ELSE 0)))
    /\ (Chained => <>(errorLog # <<>> \/ Emitted(batchLog) = ArrayFrom(0, totalPages)))

SetMin(S) == CHOOSE x \in S : \A y \in S : x <= y

ExampleLog ==
    << [indices |-> <<0>>, refs |-> <<>>],
       [indices |-> <<1>>, refs |-> <<0>>],
       [indices |-> <<2, 3>>, refs |-> <<0, 1>>],
       [indices |-> <<4, 5, 6, 7>>, refs |-> <<0, 1, 2, 3>>],
       [indices |-> <<8, 9, 10, 11>>, refs |-> <<4, 5, 6, 7>> ] >>

ShortLog ==
    << [indices |-> <<0>>, refs |-> <<>>],
       [indices |-> <<1>>, refs |-> <<0>>],
       [indices |-> <<2>>, refs |-> <<0, 1>>] >>

IsPrefix(a, b) == Len(a) <= Len(b) /\ a = SubSeq(b, 1, Len(a))

\* C6: with every page succeeding, 12 pages at width 4 run as five batches
\* of sizes 1,1,2,4,4 (cursor 0,1,2,4,8,12) with references none, [1],
\* [1,2], [1,2,3,4], [5,6,7,8]; 3 pages at width 4 run as three batches of 1.
C6_ExampleBatches ==
    Chained /\ NoFault /\ batchSize = 4 =>
        /\ totalPages = 12 =>
              /\ IsPrefix(batchLog, ExampleLog)
              /\ currentIndex \in {0, 1, 2, 4, 8, 12}
              /\ pc = "resolved" => batchLog = ExampleLog /\ currentIndex = 12
        /\ totalPages = 3 =>
              /\ IsPrefix(batchLog, ShortLog)
              /\ pc = "resolved" => batchLog = ShortLog /\ currentIndex = 3

C6_Witness ==
    /\ Chained /\ NoFault /\ batchSize = 4 /\ totalPages = 12
    /\ pc = "resolved"
    /\ \A p \in Pages : completeCount[p] = 1

IsAscending(s) == \A i \in 1..(Len(s) - 1) : s[i] < s[i + 1]

\* C7: the reference list of every chained batch has length
\* min(maxWidth, completedCount), is the suffix of the registry, ascends, and
\* holds the largest min(maxWidth, completedCount) indices of the registry.
C7_ReferenceWindow ==
    Chained /\ pc = "await" =>
        LET k == Min(batchSize, Len(completedIndices))
        IN  /\ Len(refIndices) = k
            /\ refIndices = SubSeq(completedIndices, Len(completedIndices) - k + 1,
                                   Len(completedIndices))
            /\ IsAscending(refIndices)
            /\ \A r \in SeqToSet(refIndices) :
                  \A c \in SeqToSet(completedIndices) \ SeqToSet(refIndices) : c < r
            /\ batchLog[Len(batchLog)].refs = refIndices

C7_Witness ==
    /\ Chained /\ pc = "await"
    /\ batchSize = 2
    /\ Len(completedIndices) = 3
    /\ emptied # {}
    /\ refIndices = <<1, 2>>

\* C8: in flat mode batch k (0-based) is [k*maxWidth, min((k+1)*maxWidth,
\* totalPages)), the batches of a run without failures partition
\* [0, totalPages), no request carries a reference image, and 10 pages at
\* width 3 run as batches of 3,3,3,1.
C8_FlatBatches ==
    Flat =>
        /\ \A k \in 1..Len(batchLog) :
              /\ batchLog[k].indices =
                    [i \in 1..(Min(k * batchSize, totalPages) - (k - 1) * batchSize)
                        |-> (k - 1) * batchSize + i - 1]
              /\ batchLog[k].refs = <<>>
        /\ \A p \in DOMAIN contents : \A i \in 1..Len(contents[p]) :
              contents[p][i].role \notin {"reference", "referenceLabel"}
        /\ pc = "resolved" => Emitted(batchLog) = ArrayFrom(0, totalPages)
        /\ pc = "resolved" /\ totalPages = 10 /\ batchSize = 3 =>
              [k \in 1..Len(batchLog) |-> Len(batchLog[k].indices)] = <<3, 3, 3, 1>>

C8_Witness ==
    /\ Flat /\ totalPages = 10 /\ batchSize = 3
    /\ pc = "resolved"
    /\ Len(batchLog) = 4

\* C9: no batch is dispatched (and no batch-started notification is
\* emitted) while a page request of the batch before it is unsettled.
C9_BatchBarrier ==
    [][(pc = "loop" /\ pc' = "await") \/ batchLog' # batchLog => AllSettled]_vars

C9_Witness ==
    /\ pc = "await"
    /\ Len(batchLog) >= 2
    /\ \E p, q \in DOMAIN task : task[p] = "fulfilled" /\ task[q] = "calling"
    /\ currentIndex + Len(batchIndices) < totalPages

Collect == mode = "collect"

HasResult(p) == p \in DOMAIN task /\ task[p] = "fulfilled" /\ p \notin emptied

\* C11: in both modes a page that yields a result gets its onPageComplete
\* at the moment its own request resolves, without waiting for batch-mates:
\* a task that has resolved with a result has been notified.
C11_StreamingCompletion ==
    \A p \in DOMAIN task : HasResult(p) => completeCount[p] >= 1
\* Both definitions of processColorization.
ChainedAny == mode \in {"chained", "collect"}

\* C12: a chained batch never dispatches more pages than maxWidth, and from
\* ordinal 2 on never more than the registry held at planning time (which
\* is also never more than its reference list); only the first batch runs
\* pages with zero references.
C12_ConcurrencyBounds ==
    ChainedAny /\ pc = "await" =>
        /\ Len(batchIndices) <= batchSize
        /\ Cardinality(DOMAIN task) = Len(batchIndices)
        /\ batchNumber >= 2 =>
              /\ Len(batchIndices) <= Len(completedIndices)
              /\ Len(batchIndices) <= Len(refIndices)
        /\ batchIndices # <<>> /\ refIndices = <<>> => batchNumber = 1

C12_Witness ==
    /\ ChainedAny /\ pc = "await"
    /\ batchNumber = 3
    /\ batchSize = 3
    /\ Len(completedIndices) = 2
    /\ Len(batchIndices) = 2
    /\ InFlight = DOMAIN task
BatchSizeAt(k) == Len(batchLog[k].indices)

\* C13 as stated: the size of batch n+1 is at most the size of batch n plus one.
C13_Original ==
    ChainedAny =>
        \A k \in 1..(Len(batchLog) - 1) : BatchSizeAt(k + 1) <= BatchSizeAt(k) + 1

\* C13 as amended: the size of batch n is at most n, so the cap, not the
\* size, grows by one slot per round; the size of batch n+1 is at most
\* max(size(n) + 1, 2 * size(n)).
C13_GrowthBound ==
    ChainedAny =>
        /\ \A k \in 1..Len(batchLog) : BatchSizeAt(k) <= k
        /\ \A k \in 1..(Len(batchLog) - 1) :
              BatchSizeAt(k + 1) <= Max(BatchSizeAt(k) + 1, 2 * BatchSizeAt(k))

C13_Witness ==
    /\ Chained /\ totalPages = 12 /\ batchSize = 4
    /\ Len(batchLog) >= 4
    /\ BatchSizeAt(3) = 2
    /\ BatchSizeAt(4) = 4
Prompts == {"colorizationPrompt", "translationPrompt"}

Built == {p \in DOMAIN contents : contents[p] # <<>>}

\* The references of refs that resolve, in the order of refs.
ResolvedRefs == SelectSeq(refIndices, LAMBDA r : r \notin missing)

\* Reference label and image pairs in the given order, then the target
\* label, the target image and the instruction.
ChainedOrder(p) ==
    LET c == contents[p]
        k == Len(ResolvedRefs)
    IN  /\ Len(c) = 2 * k + 3
        /\ \A i \in 1..k :
              /\ c[2 * i - 1] = [kind |-> "text", role |-> "referenceLabel",
                                 n |-> ResolvedRefs[i] + 1]
              /\ c[2 * i] = [kind |-> "image", role |-> "reference", n |-> ResolvedRefs[i]]
        /\ c[2 * k + 1].kind = "text" /\ c[2 * k + 1].role = "targetLabel"
        /\ c[2 * k + 2] = [kind |-> "image", role |-> "target", n |-> p]
        /\ c[2 * k + 3].kind = "text" /\ c[2 * k + 3].role = "colorizationPrompt"

\* C14: in every request of both modes the instruction text is the last
\* content part and the target image comes before it; a chained request is
\* the reference pairs, the target label, the target image, the instruction.
C14_InstructionIsLast ==
    \A p \in Built :
        /\ contents[p][Len(contents[p])].kind = "text"
        /\ contents[p][Len(contents[p])].role \in Prompts
        /\ \E i \in 1..(Len(contents[p]) - 1) :
              contents[p][i] = [kind |-> "image", role |-> "target", n |-> p]
        /\ ChainedAny => ChainedOrder(p)
\* C15: in chained mode every page index occurs at most once in the
\* registry, an index is in the registry only if its onPageComplete has
\* fired with a result, and a page whose call returned an empty result is
\* never in the registry and never notified.
C15_RegistryInvariant ==
    ChainedAny =>
        /\ \A i, j \in 1..Len(completedIndices) :
              i # j => completedIndices[i] # completedIndices[j]
        /\ \A p \in SeqToSet(completedIndices) \cup SeqToSet(batchCompletedIndices) :
              p \in Pages /\ completeCount[p] >= 1 /\ p \notin emptied
        /\ \A p \in emptied : completeCount[p] = 0

C15_Witness ==
    /\ Chained /\ pc = "loop"
    /\ Len(completedIndices) >= 3
    /\ \E p \in emptied : \E i, j \in 1..Len(completedIndices) :
          completedIndices[i] < p /\ p < completedIndices[j]
\* The reference images a request carries.
ReferenceImages(p) == SelectSeq(contents[p], LAMBDA part : part.role = "reference")

\* C16: in chained mode the registry, nextUnprocessedIndex and batchOrdinal
\* change only in the advancing step, after every task of the batch has
\* been joined; no page task's completion changes them, the reference list
\* is fixed while the batch is awaited, and every page of the batch is
\* given the same references.
C16_SharedStateFrame ==
    [][ChainedAny =>
        /\ (completedIndices' # completedIndices \/ currentIndex' # currentIndex
              \/ batchNumber' # batchNumber) =>
              /\ pc = "await" /\ pc' = "loop"
              /\ \A p \in DOMAIN task : task[p] = "fulfilled"
              /\ task' = task
        /\ (pc = "await" /\ pc' = "await") => refIndices' = refIndices
        /\ \A p, q \in Built' : ReferenceImages(p)' = ReferenceImages(q)'
      ]_vars

C16_Witness ==
    /\ Chained /\ pc = "await"
    /\ completedIndices # <<>>
    /\ batchCompletedIndices # <<>>
    /\ InFlight # {}
    /\ \E p, q \in Built : p # q /\ ReferenceImages(p) # <<>>
\* C17: in every mode one batch-started notification is emitted per batch, in
\* the step that starts the batch's page tasks and carrying exactly the
\* pages started; onPageComplete(i) fires only while the latest
\* batch-started notification lists i, never in the step that emits one,
\* and at most once per page.
C17_NotificationProtocol ==
    [][/\ (pc = "loop" /\ pc' = "await") =>
            /\ Len(batchLog) < LogCap(totalPages) =>
                  /\ Len(batchLog') = Len(batchLog) + 1
                  /\ SubSeq(batchLog', 1, Len(batchLog)) = batchLog
                  /\ batchLog'[Len(batchLog')].indices = batchIndices'
            /\ DOMAIN task' = SeqToSet(batchIndices')
            /\ \A p \in DOMAIN task' : task'[p] = "building"
            /\ completeCount' = completeCount
       /\ batchLog' # batchLog => (pc = "loop" /\ pc' = "await")
       /\ (DOMAIN task' # DOMAIN task) => (pc = "loop" /\ pc' = "await")
       /\ \A p \in Pages :
            completeCount'[p] # completeCount[p] =>
                /\ completeCount[p] = 0 /\ completeCount'[p] = 1
                /\ batchLog' = batchLog
                /\ batchLog # <<>>
                /\ p \in SeqToSet(batchLog[Len(batchLog)].indices)
      ]_vars

C17_Witness ==
    /\ Len(batchLog) >= 2
    /\ \E p \in Pages :
          /\ completeCount[p] = 1
          /\ p \in SeqToSet(batchLog[Len(batchLog)].indices)
    /\ \E q \in Pages :
          /\ completeCount[q] = 1
          /\ q \in SeqToSet(batchLog[1].indices)
\* C18: in chained mode, whenever the loop plans a batch
\* (currentIndex < totalPages) the computed batchCount is at least 1, and
\* every batch-started notification carries a non-empty index list.
C18_PlannedBatchIsNonEmpty ==
    ChainedAny =>
        /\ (pc = "loop" /\ currentIndex < totalPages) =>
              batchCountOf(batchNumber, batchSize, Len(completedIndices),
                           totalPages, currentIndex) >= 1
        /\ \A k \in 1..Len(batchLog) : batchLog[k].indices # <<>>

\* The reference count the instruction text of a request states.
StatedReferenceCount(p) == contents[p][Len(contents[p])].n

\* C19: in every chained request the reference count stated in the
\* instruction text equals the number of reference images in the request,
\* also when the resolver returns absent for a reference index.
C19_StatedReferenceCount ==
    ChainedAny =>
        \A p \in Built : StatedReferenceCount(p) = Len(ReferenceImages(p))

\* C20: in chained mode every reference index of a batch is smaller than
\* every page index of the batch, and is a page whose result was notified
\* and registered by an earlier batch that has been joined.
C20_ReferencesPrecedeBatch ==
    (ChainedAny /\ pc = "await") =>
        \A i \in 1..Len(refIndices) :
            LET r == refIndices[i]
            IN  /\ \A j \in 1..Len(batchIndices) : r < batchIndices[j]
                /\ r \in Pages
                /\ r \notin DOMAIN task
                /\ r \in SeqToSet(completedIndices)
                /\ r \notin SeqToSet(batchCompletedIndices)
                /\ r \in Pages => completeCount[r] >= 1

C20_Witness ==
    /\ ChainedAny /\ pc = "await"
    /\ Len(refIndices) >= 2
    /\ Len(batchIndices) >= 2
    /\ Built # {}
====
